---- MODULE Spec2Model ----
(***************************************************************************)
(* A model of clients/APIClient.go: the APIClient executor, its two        *)
(* request routines (DoRequestWithResponseParam, doRequest) and the four   *)
(* wrappers DoGet, DoGetList, DoPost and DoDelete.                         *)
(*                                                                         *)
(* Text (Go string / []byte) is a sequence of one-character strings, so    *)
(* that prefix tests, concatenation, JSON encoding and JSON decoding are   *)
(* computed character by character.  A Go pointer that may be nil is a     *)
(* sequence of length 0 (nil) or of length 1 (the value pointed to).       *)
(***************************************************************************)
EXTENDS Integers, Sequences, FiniteSets, TLC

VARIABLES apiClient, call, wire

vars == <<apiClient, call, wire>>

(***************************************************************************)
(* Bounds of the model.                                                    *)
(***************************************************************************)
\* longest JSON array a server answers with
MaxElems == 2
\* number of calls running concurrently against one APIClient (SpecConc)
MaxCalls == 2

(***************************************************************************)
(* Text.                                                                   *)
(***************************************************************************)
Bearer == <<"B", "e", "a", "r", "e", "r">>
BearerSp == <<"B", "e", "a", "r", "e", "r", " ">>

\* strings.HasPrefix(s, prefix)
HasPrefix(s, prefix) ==
    /\ Len(s) >= Len(prefix)
    /\ SubSeq(s, 1, Len(prefix)) = prefix

\* byte order of the characters that occur in object keys
Alphabet == <<"0", "1", "2", "a", "b", "d", "i", "n">>

Code(ch) == CHOOSE i \in 1..Len(Alphabet) : Alphabet[i] = ch

RECURSIVE StrLess(_, _)
\* Go's < on strings: lexicographic on bytes
StrLess(a, b) ==
    IF b = << >> THEN FALSE
    ELSE IF a = << >> THEN TRUE
    ELSE IF Head(a) # Head(b) THEN Code(Head(a)) < Code(Head(b))
    ELSE StrLess(Tail(a), Tail(b))

(***************************************************************************)
(* JSON values as encoding/json holds them in an interface{}:              *)
(*   map[string]interface{}  [t |-> "object", m |-> key :> value @@ ...]   *)
(*   []interface{}           [t |-> "array",  e |-> <<value, ...>>]        *)
(*   float64                 [t |-> "number", n |-> Nat]                   *)
(*   string                  [t |-> "string", s |-> text]                  *)
(*   bool                    [t |-> "bool",   b |-> BOOLEAN]               *)
(*   nil                     [t |-> "null"]                                *)
(* and a value json.Marshal rejects (a chan, a func):                      *)
(*                           [t |-> "chan"]                                *)
(***************************************************************************)
JNull == [t |-> "null"]
JNum(n) == [t |-> "number", n |-> n]
JStr(s) == [t |-> "string", s |-> s]
JBool(b) == [t |-> "bool", b |-> b]
JArr(e) == [t |-> "array", e |-> e]
JObj(m) == [t |-> "object", m |-> m]
JChan == [t |-> "chan"]

Digits == <<"0", "1", "2", "3", "4", "5", "6", "7", "8", "9">>
IsDigit(ch) == \E d \in 1..10 : Digits[d] = ch
DigitVal(ch) == (CHOOSE d \in 1..10 : Digits[d] = ch) - 1

RECURSIVE NumText(_)
\* the decimal text of a natural number
NumText(n) == IF n < 10 THEN <<Digits[n + 1]>>
              ELSE NumText(n \div 10) \o <<Digits[(n % 10) + 1]>>

RECURSIVE SortedKeys(_)
\* the keys of a map in the order json.Marshal writes them (sorted)
SortedKeys(ks) ==
    IF ks = {} THEN << >>
    ELSE LET k == CHOOSE k \in ks : \A o \in ks \ {k} : StrLess(k, o)
         IN  <<k>> \o SortedKeys(ks \ {k})

RECURSIVE Marshal(_), MarshalElems(_), MarshalMembers(_, _)
\* json.Marshal(v): [ok, bytes]; ok = FALSE is Marshal's error
Marshal(v) ==
    CASE v.t = "null"   -> [ok |-> TRUE, bytes |-> <<"n", "u", "l", "l">>]
      [] v.t = "bool"   -> [ok |-> TRUE,
                            bytes |-> IF v.b THEN <<"t", "r", "u", "e">>
                                      ELSE <<"f", "a", "l", "s", "e">>]
      [] v.t = "number" -> [ok |-> TRUE, bytes |-> NumText(v.n)]
      [] v.t = "string" -> [ok |-> TRUE, bytes |-> <<"\"">> \o v.s \o <<"\"">>]
      [] v.t = "array"  ->
            LET r == MarshalElems(v.e)
            IN  [ok |-> r.ok, bytes |-> <<"[">> \o r.bytes \o <<"]">>]
      [] v.t = "object" ->
            LET r == MarshalMembers(v.m, SortedKeys(DOMAIN v.m))
            IN  [ok |-> r.ok, bytes |-> <<"{">> \o r.bytes \o <<"}">>]
      [] OTHER          -> [ok |-> FALSE, bytes |-> << >>]

MarshalElems(e) ==
    IF e = << >> THEN [ok |-> TRUE, bytes |-> << >>]
    ELSE LET h == Marshal(Head(e))
             r == MarshalElems(Tail(e))
         IN  [ok |-> h.ok /\ r.ok,
              bytes |-> h.bytes \o (IF Tail(e) = << >> THEN << >> ELSE <<",">>)
                        \o r.bytes]

MarshalMembers(m, ks) ==
    IF ks = << >> THEN [ok |-> TRUE, bytes |-> << >>]
    ELSE LET h == Marshal(m[Head(ks)])
             r == MarshalMembers(m, Tail(ks))
         IN  [ok |-> h.ok /\ r.ok,
              bytes |-> <<"\"">> \o Head(ks) \o <<"\"", ":">> \o h.bytes
                        \o (IF Tail(ks) = << >> THEN << >> ELSE <<",">>)
                        \o r.bytes]

(***************************************************************************)
(* The JSON decoder, a recursive descent over the bytes read.  A parse     *)
(* result is [ok, v, i]: i is the position after the value.                *)
(***************************************************************************)
Fail == [ok |-> FALSE, v |-> JNull, i |-> 0]

At(s, i) == IF i >= 1 /\ i <= Len(s) THEN s[i] ELSE "EOF"

RECURSIVE SkipSpace(_, _)
SkipSpace(s, i) == IF At(s, i) = " " THEN SkipSpace(s, i + 1) ELSE i

Literal(s, i, word, v) ==
    IF i + Len(word) - 1 <= Len(s) /\ SubSeq(s, i, i + Len(word) - 1) = word
    THEN [ok |-> TRUE, v |-> v, i |-> i + Len(word)]
    ELSE Fail

RECURSIVE StringEnd(_, _)
\* position of the quote that closes the string whose text starts at i; 0 if none
StringEnd(s, i) ==
    IF i > Len(s) \/ s[i] = "\\" THEN 0
    ELSE IF s[i] = "\"" THEN i
    ELSE StringEnd(s, i + 1)

ParseString(s, i) ==
    LET j == StringEnd(s, i + 1)
    IN  IF At(s, i) = "\"" /\ j # 0
        THEN [ok |-> TRUE, v |-> SubSeq(s, i + 1, j - 1), i |-> j + 1]
        ELSE [ok |-> FALSE, v |-> << >>, i |-> 0]

RECURSIVE ParseDigits(_, _, _)
\* a number: digits, no leading zero, ended by the first byte that is no digit
ParseDigits(s, i, n) ==
    IF IsDigit(At(s, i)) THEN ParseDigits(s, i + 1, 10 * n + DigitVal(s[i]))
    ELSE [ok |-> TRUE, v |-> JNum(n), i |-> i]

RECURSIVE ParseValue(_, _), ParseElems(_, _, _), ParseMembers(_, _, _)
ParseValue(s, i0) ==
    LET i == SkipSpace(s, i0)
        ch == At(s, i)
    IN  CASE ch = "n"  -> Literal(s, i, <<"n", "u", "l", "l">>, JNull)
          [] ch = "t"  -> Literal(s, i, <<"t", "r", "u", "e">>, JBool(TRUE))
          [] ch = "f"  -> Literal(s, i, <<"f", "a", "l", "s", "e">>, JBool(FALSE))
          [] ch = "\"" -> LET r == ParseString(s, i)
                          IN  IF r.ok THEN [ok |-> TRUE, v |-> JStr(r.v), i |-> r.i]
                              ELSE Fail
          [] ch = "["  -> IF At(s, SkipSpace(s, i + 1)) = "]"
                          THEN [ok |-> TRUE, v |-> JArr(<< >>),
                                i |-> SkipSpace(s, i + 1) + 1]
                          ELSE ParseElems(s, i + 1, << >>)
          [] ch = "{"  -> IF At(s, SkipSpace(s, i + 1)) = "}"
                          THEN [ok |-> TRUE, v |-> JObj(<< >>),
                                i |-> SkipSpace(s, i + 1) + 1]
                          ELSE ParseMembers(s, i + 1, << >>)
          [] OTHER     -> IF IsDigit(ch) /\ (ch # "0" \/ ~IsDigit(At(s, i + 1)))
                          THEN ParseDigits(s, i, 0)
                          ELSE Fail

ParseElems(s, i, acc) ==
    LET r == ParseValue(s, i)
        j == SkipSpace(s, r.i)
    IN  IF ~r.ok THEN Fail
        ELSE IF At(s, j) = "," THEN ParseElems(s, j + 1, Append(acc, r.v))
        ELSE IF At(s, j) = "]"
             THEN [ok |-> TRUE, v |-> JArr(Append(acc, r.v)), i |-> j + 1]
        ELSE Fail

ParseMembers(s, i, acc) ==
    LET k == ParseString(s, SkipSpace(s, i))
        c == SkipSpace(s, k.i)
        r == ParseValue(s, c + 1)
        j == SkipSpace(s, r.i)
        \* a repeated key keeps its last value
        m == [x \in DOMAIN acc \cup {k.v} |-> IF x = k.v THEN r.v ELSE acc[x]]
    IN  IF ~k.ok \/ At(s, c) # ":" THEN Fail
        ELSE IF ~r.ok THEN Fail
        ELSE IF At(s, j) = "," THEN ParseMembers(s, j + 1, m)
        ELSE IF At(s, j) = "}" THEN [ok |-> TRUE, v |-> JObj(m), i |-> j + 1]
        ELSE Fail

(***************************************************************************)
(* A response body is a stream: data are the bytes it delivers, and err    *)
(* says that it then ends in a read error instead of a clean end of file.  *)
(***************************************************************************)
\* ioutil.ReadAll(response.Body): the bytes read so far, and the read error
ReadAll(body) == [bytes |-> body.data, err |-> body.err]

\* json.NewDecoder(response.Body).Decode(&v) for v an interface{}: the first
\* JSON value of the stream; bytes after it are left unread.  An object or an
\* array is complete at its closing bracket; a string, a number or a literal
\* is complete at the next byte or at a clean end of file.
Decode(body) ==
    LET r == ParseValue(body.data, 1)
        done == r.v.t \in {"object", "array"} \/ r.i <= Len(body.data) \/ ~body.err
    IN  IF r.ok /\ done THEN [ok |-> TRUE, v |-> r.v] ELSE [ok |-> FALSE, v |-> JNull]

\* Decode(out) for the destinations a caller passes: "any" is a *interface{},
\* "map" a *map[string]interface{} (null leaves it a nil map; an array, a
\* string, a number or a boolean is an UnmarshalTypeError)
DecodeInto(out, body) ==
    LET r == Decode(body)
    IN  IF out = "map" /\ r.ok /\ r.v.t \notin {"object", "null"}
        THEN [ok |-> FALSE, v |-> JNull]
        ELSE r

(***************************************************************************)
(* Errors.  An error value is a pointer: << >> is nil.                     *)
(***************************************************************************)
\* microappError.NewAPICallError(url, statusCode, body, cause)
NewAPICallError(url, status, body, cause) ==
    [kind |-> "APICallError", url |-> url, status |-> status, body |-> body,
     cause |-> cause]

\* errors.New("Could not parse Json to map")
ParseShapeError ==
    [kind |-> "errorString", url |-> << >>, status |-> << >>, body |-> << >>,
     cause |-> "Could not parse Json to map"]

(***************************************************************************)
(* Building the request (DoRequestWithResponseParam lines 26-50, doRequest *)
(* lines 76-100; the two are the same text).                               *)
(***************************************************************************)
\* net/http validMethod: not empty, every byte a token character
ValidMethod(method) ==
    /\ method # << >>
    /\ \A i \in 1..Len(method) : method[i] \notin {" ", "\n", "/"}

\* net/url Parse rejects a URL that holds an ASCII control character
ValidURL(u) == \A i \in 1..Len(u) : u[i] # "\n"

\* http.Header.Add(key, value)
HeaderAdd(h, key, value) ==
    [k \in DOMAIN h \cup {key} |->
        IF k = key THEN (IF key \in DOMAIN h THEN h[key] ELSE << >>) \o <<value>>
        ELSE h[k]]

\* http.Header.Set(key, value)
HeaderSet(h, key, value) ==
    [k \in DOMAIN h \cup {key} |-> IF k = key THEN <<value>> ELSE h[k]]

\* the status above which a response is an error
SuccessLimit == 300

\* apiURL := apiClient.BaseURL + url
ApiURL(client, url) == client.BaseURL \o url

\* the payload's bytes: json.Marshal(payload) when payload != nil
MarshalPayload(payload) ==
    IF payload = << >> THEN [ok |-> TRUE, body |-> << >>]
    ELSE LET r == Marshal(payload[1])
         IN  [ok |-> r.ok, body |-> IF r.ok THEN <<r.bytes>> ELSE << >>]

\* http.NewRequest(requestMethod, apiURL, body)
\* (an empty method stands for GET)
NewRequest(method, u, body) ==
    LET m == IF method = << >> THEN <<"G", "E", "T">> ELSE method
    IN  [ok |-> ValidMethod(m) /\ ValidURL(u),
         req |-> [Method |-> m, URL |-> u, Body |-> body, Header |-> << >>]]

\* AddAuthorization testing for the prefix "Bearer " with its space
AddAuthorizationSpace(header, rawToken) ==
    IF rawToken # << >>
    THEN IF HasPrefix(rawToken, BearerSp)
         THEN HeaderAdd(header, "Authorization", rawToken)
         ELSE HeaderAdd(header, "Authorization", BearerSp \o rawToken)
    ELSE header

\* if rawToken != "" { ... request.Header.Add("Authorization", ...) }
AddAuthorization(header, rawToken) ==
    IF rawToken # << >>
    THEN IF HasPrefix(rawToken, Bearer)
         THEN HeaderAdd(header, "Authorization", rawToken)
         ELSE HeaderAdd(header, "Authorization", BearerSp \o rawToken)
    ELSE header

\* the three request.Header.Set calls
SetHeaders(header, client, correlationID) ==
    HeaderSet(HeaderSet(HeaderSet(header, "X-Client", client.AppName),
                        "X-Correlation-ID", correlationID),
              "Content-Type", <<"application/json">>)

\* Everything up to the call of the transport: [ok, req, err, trace].
BuildRequest(client, url, method, rawToken, payload, correlationID) ==
    LET u == ApiURL(client, url)
        m == MarshalPayload(payload)
        n == NewRequest(method, u, m.body)
        tr == IF payload = << >> THEN << >> ELSE <<"serialize">>
    IN  IF ~m.ok
        THEN [ok |-> FALSE, req |-> << >>, trace |-> tr,
              err |-> <<NewAPICallError(u, << >>, << >>, "Unable to marshal payload")>>]
        ELSE IF ~n.ok
        THEN [ok |-> FALSE, req |-> << >>, trace |-> tr \o <<"construct">>,
              err |-> <<NewAPICallError(u, << >>, << >>,
                                        "Unable to create HTTP request")>>]
        ELSE [ok |-> TRUE, trace |-> tr \o <<"construct">>, err |-> << >>,
              req |-> <<[n.req EXCEPT !.Header =
                           SetHeaders(AddAuthorization(n.req.Header, rawToken),
                                      client, correlationID)]>>]

(***************************************************************************)
(* After the transport answered (lines 58-72 and 108-122).                 *)
(***************************************************************************)
\* IsFailure with the boundary status itself taken for an error
IsFailureFrom300(status) == status >= SuccessLimit

\* response.StatusCode > 300
IsFailure(status) == status > SuccessLimit

\* the text the error of a failed status carries (lines 109-112)
ResponseBodyString(body) ==
    LET r == ReadAll(body)
    IN  IF r.err THEN r.bytes ELSE << >>

\* HandleGeneric with the decode failure built like the failures before the
\* response, without the status
HandleGenericNoStatus(u, resp) ==
    IF IsFailure(resp.StatusCode)
    THEN [val |-> JNull, trace |-> <<"classify", "read">>,
          err |-> <<NewAPICallError(u, <<resp.StatusCode>>,
                                    <<ResponseBodyString(resp.Body)>>,
                                    "Received non-success code")>>]
    ELSE LET d == Decode(resp.Body)
         IN  IF ~d.ok
             THEN [val |-> JNull, trace |-> <<"classify", "decode">>,
                   err |-> <<NewAPICallError(u, << >>, << >>,
                                             "Unable parse response payload")>>]
             ELSE [val |-> d.v, trace |-> <<"classify", "decode">>, err |-> << >>]

\* doRequest from line 108 on: [val, err, trace]
HandleGeneric(u, resp) ==
    IF IsFailure(resp.StatusCode)
    THEN [val |-> JNull, trace |-> <<"classify", "read">>,
          err |-> <<NewAPICallError(u, <<resp.StatusCode>>,
                                    <<ResponseBodyString(resp.Body)>>,
                                    "Received non-success code")>>]
    ELSE LET d == Decode(resp.Body)
         IN  IF ~d.ok
             THEN [val |-> JNull, trace |-> <<"classify", "decode">>,
                   err |-> <<NewAPICallError(u, <<resp.StatusCode>>, << >>,
                                             "Unable parse response payload")>>]
             ELSE [val |-> d.v, trace |-> <<"classify", "decode">>, err |-> << >>]

\* DoRequestWithResponseParam from line 58 on; val is what out points to
\* afterwards (JNull: left as the caller passed it)
HandleTyped(u, resp, out) ==
    IF IsFailure(resp.StatusCode)
    THEN [val |-> JNull, trace |-> <<"classify", "read">>,
          err |-> <<NewAPICallError(u, <<resp.StatusCode>>,
                                    <<ResponseBodyString(resp.Body)>>,
                                    "Received non-success code")>>]
    ELSE IF out # "nil"
    THEN LET d == DecodeInto(out, resp.Body)
         IN  IF ~d.ok
             THEN [val |-> JNull, trace |-> <<"classify", "decode">>,
                   err |-> <<NewAPICallError(u, <<resp.StatusCode>>, << >>,
                                             "Unable parse response payload")>>]
             ELSE [val |-> d.v, trace |-> <<"classify", "decode">>, err |-> << >>]
    ELSE [val |-> JNull, trace |-> <<"classify">>, err |-> << >>]

(***************************************************************************)
(* The wrappers' shape assertions; a result is [val, err].                 *)
(***************************************************************************)
\* AssertMap with the ok of the type assertion ignored: a nil map, no error
AssertMapUnchecked(ret) ==
    IF ret.err # << >> THEN [val |-> << >>, err |-> ret.err]
    ELSE IF ret.val.t # "object" THEN [val |-> << >>, err |-> << >>]
    ELSE [val |-> <<ret.val.m>>, err |-> << >>]

\* response.(map[string]interface{}) of DoGet and DoPost
AssertMap(ret) ==
    IF ret.err # << >> THEN [val |-> << >>, err |-> ret.err]
    ELSE IF ret.val.t # "object" THEN [val |-> << >>, err |-> <<ParseShapeError>>]
    ELSE [val |-> <<ret.val.m>>, err |-> << >>]

RECURSIVE CollectMapsSkipping(_, _)
\* the loop of DoGetList passing over an element that is no object
CollectMapsSkipping(objs, sliceOfMapObjects) ==
    IF objs = << >> THEN [ok |-> TRUE, list |-> sliceOfMapObjects]
    ELSE IF Head(objs).t = "object"
         THEN CollectMapsSkipping(Tail(objs), Append(sliceOfMapObjects, Head(objs).m))
         ELSE CollectMapsSkipping(Tail(objs), sliceOfMapObjects)

RECURSIVE CollectMaps(_, _)
\* the loop of DoGetList: [ok, list]
CollectMaps(objs, sliceOfMapObjects) ==
    IF objs = << >> THEN [ok |-> TRUE, list |-> sliceOfMapObjects]
    ELSE IF Head(objs).t = "object"
         THEN CollectMaps(Tail(objs), Append(sliceOfMapObjects, Head(objs).m))
         ELSE [ok |-> FALSE, list |-> << >>]

\* DoGetList after doRequest; the slice it returns is a sequence (nil: << >>)
AssertList(ret) ==
    IF ret.err # << >> THEN [val |-> << >>, err |-> ret.err]
    ELSE IF ret.val.t # "array" THEN [val |-> << >>, err |-> <<ParseShapeError>>]
    ELSE LET r == CollectMaps(ret.val.e, << >>)
         IN  IF r.ok THEN [val |-> r.list, err |-> << >>]
             ELSE [val |-> << >>, err |-> <<ParseShapeError>>]

\* DoDelete after doRequest: only the error
AssertNone(ret) == [val |-> << >>, err |-> ret.err]

\* DoRequestWithResponseParam has no wrapper: out's content and the error
AssertTyped(ret) == [val |-> ret.val, err |-> ret.err]

(***************************************************************************)
(* The state.  apiClient is the executor (its three fields); call[c] is    *)
(* the frame of call c: its arguments, its locals and where it stands;     *)
(* wire[c] is what the transport saw of call c: one entry per              *)
(* apiClient.HTTPClient.Do, the request it was handed and how it answered. *)
(***************************************************************************)
IdleFrame ==
    [pc |-> "idle", op |-> "", ctx |-> << >>, url |-> << >>, method |-> << >>,
     rawToken |-> << >>, payload |-> << >>, out |-> "nil",
     request |-> << >>, response |-> << >>,
     ret |-> [val |-> JNull, err |-> << >>],
     result |-> [val |-> << >>, err |-> << >>],
     trace |-> << >>, closed |-> 0]

TheClient ==
    [AppName |-> <<"a", "p", "p">>,
     BaseURL |-> <<"h", "t", "t", "p", ":", "/", "/", "s", "v", "c">>,
     HTTPClient |-> "http.Client"]

\* the calls of the two specifications
OneCall == {1}
ManyCalls == 1..MaxCalls

Init ==
    /\ apiClient = TheClient
    /\ call = [c \in OneCall |-> IdleFrame]
    /\ wire = [c \in OneCall |-> << >>]

InitConc ==
    /\ apiClient = TheClient
    /\ call = [c \in ManyCalls |-> IdleFrame]
    /\ wire = [c \in ManyCalls |-> << >>]

GET == <<"G", "E", "T">>
POST == <<"P", "O", "S", "T">>
DELETE == <<"D", "E", "L", "E", "T", "E">>

\* the method and the payload each entry point hands on (lines 127, 141, 163, 177)
MethodOf(op, method) ==
    CASE op = "DoGet" -> GET
      [] op = "DoGetList" -> GET
      [] op = "DoPost" -> POST
      [] op = "DoDelete" -> DELETE
      [] OTHER -> method

PayloadOf(op, payload) == IF op \in {"DoGet", "DoGetList"} THEN << >> ELSE payload

\* CorrelationID read from one slot that the first call to enter filled
CorrelationIDShared(c) ==
    call[CHOOSE d \in DOMAIN call : call[d].ctx # << >>].ctx

\* context.GetCorrelationID() of call c
CorrelationID(c) == call[c].ctx

\* PcAfterSend trying the transport again after an error
PcAfterSendRetry(o) == IF o.err THEN "built" ELSE "responded"

\* PcAfterHandle with the body closed on the success path only
PcAfterHandleLeak(h) == IF h.err # << >> THEN "returned" ELSE "deferred"

\* where a call stands once the transport answered: after an error it returns,
\* after a response the deferred close is registered (lines 103-107)
PcAfterSend(o) == IF o.err THEN "returned" ELSE "responded"

\* where a call stands after lines 108-122: its return runs the deferred close
PcAfterHandle(h) == "deferred"

\* a caller enters one of the five public operations
Invoke(c, a) ==
    /\ call[c].pc = "idle"
    /\ call' = [call EXCEPT ![c] =
                  [@ EXCEPT !.pc = "called", !.op = a.op, !.ctx = a.ctx,
                            !.url = a.url, !.rawToken = a.rawToken,
                            !.method = MethodOf(a.op, a.method),
                            !.payload = PayloadOf(a.op, a.payload),
                            !.out = IF a.op = "DoRequestWithResponseParam"
                                    THEN a.out ELSE "nil"]]
    /\ UNCHANGED <<apiClient, wire>>

\* lines 26-50 / 76-100
Build(c) ==
    /\ call[c].pc = "called"
    /\ LET f == call[c]
           b == BuildRequest(apiClient, f.url, f.method, f.rawToken, f.payload,
                             CorrelationID(c))
       IN  call' = [call EXCEPT ![c] =
                      [@ EXCEPT !.pc = IF b.ok THEN "built" ELSE "returned",
                                !.request = b.req,
                                !.ret = [val |-> JNull, err |-> b.err],
                                !.trace = @ \o b.trace]]
    /\ UNCHANGED <<apiClient, wire>>

\* lines 52-55 / 102-105: apiClient.HTTPClient.Do(request), answered by o
Send(c, o) ==
    /\ call[c].pc = "built"
    /\ LET f == call[c]
       IN  /\ wire' = [wire EXCEPT ![c] =
                         Append(@, [req |-> f.request[1], outcome |-> o])]
           /\ call' = [call EXCEPT ![c] =
                         [@ EXCEPT !.pc = PcAfterSend(o),
                                   !.response = IF o.err THEN << >> ELSE <<o>>,
                                   !.ret = [val |-> JNull,
                                            err |-> IF o.err
                                                    THEN <<NewAPICallError(
                                                             ApiURL(apiClient, f.url),
                                                             << >>, << >>,
                                                             "Unable to invoke API")>>
                                                    ELSE << >>],
                                   !.trace = Append(@, "send")]]
    /\ UNCHANGED apiClient

\* lines 58-72 / 108-122, up to the return statement
Handle(c) ==
    /\ call[c].pc = "responded"
    /\ LET f == call[c]
           u == ApiURL(apiClient, f.url)
           h == IF f.op = "DoRequestWithResponseParam"
                THEN HandleTyped(u, f.response[1], f.out)
                ELSE HandleGeneric(u, f.response[1])
       IN  call' = [call EXCEPT ![c] =
                      [@ EXCEPT !.pc = PcAfterHandle(h),
                                !.ret = [val |-> h.val, err |-> h.err],
                                !.trace = @ \o h.trace]]
    /\ UNCHANGED <<apiClient, wire>>

\* the deferred response.Body.Close() (lines 57 / 107), run as the routine returns
Close(c) ==
    /\ call[c].pc = "deferred"
    /\ call' = [call EXCEPT ![c] =
                  [@ EXCEPT !.pc = "returned", !.closed = @ + 1,
                            !.trace = Append(@, "close")]]
    /\ UNCHANGED <<apiClient, wire>>

\* the wrapper's code after doRequest returned (lines 128-136, 142-158, 164-172,
\* 178-181); DoRequestWithResponseParam returns to its caller
Finish(c) ==
    /\ call[c].pc = "returned"
    /\ LET f == call[c]
           r == CASE f.op = "DoGet" -> AssertMap(f.ret)
                  [] f.op = "DoPost" -> AssertMap(f.ret)
                  [] f.op = "DoGetList" -> AssertList(f.ret)
                  [] f.op = "DoDelete" -> AssertNone(f.ret)
                  [] OTHER -> AssertTyped(f.ret)
       IN  call' = [call EXCEPT ![c] = [@ EXCEPT !.pc = "done", !.result = r]]
    /\ UNCHANGED <<apiClient, wire>>

(***************************************************************************)
(* The inputs: what callers pass and how the transport answers.            *)
(***************************************************************************)
Ops == {"DoRequestWithResponseParam", "DoGet", "DoGetList", "DoPost", "DoDelete"}

PathW == <<"/", "w">>
PathBad == <<"/", "\n">>
PUT == <<"P", "U", "T">>
MethodBad == <<"B", " ", "D">>
Cid1 == <<"c", "1">>
Cid2 == <<"c", "2">>
TokAbc == <<"a", "b", "c">>
TokBearerAbc == <<"B", "e", "a", "r", "e", "r", " ", "a", "b", "c">>
TokLower == <<"b", "e", "a", "r", "e", "r", " ", "a">>
TokBear == <<"B", "e", "a", "r">>
Tokens == {<< >>, TokAbc, TokBearerAbc, Bearer, TokLower, TokBear}

PayloadOK == JObj((<<"n">> :> JStr(<<"y">>)) @@ (<<"a">> :> JArr(<<JBool(TRUE), JNull>>)))
PayloadBad == JObj(<<"n">> :> JChan)
Payloads == {<< >>, <<PayloadOK>>, <<PayloadBad>>}

Args ==
    [op : {"DoRequestWithResponseParam"}, ctx : {Cid1}, url : {PathW, PathBad},
     method : {PUT, MethodBad}, rawToken : Tokens, payload : Payloads,
     out : {"nil", "any", "map"}]
    \cup
    [op : {"DoPost", "DoDelete"}, ctx : {Cid1}, url : {PathW, PathBad},
     method : {<< >>}, rawToken : Tokens, payload : Payloads, out : {"nil"}]
    \cup
    [op : {"DoGet", "DoGetList"}, ctx : {Cid1}, url : {PathW, PathBad},
     method : {<< >>}, rawToken : Tokens, payload : {<< >>}, out : {"nil"}]

ObjA == JObj(<<"a">> :> JNum(1))
ObjB == JObj(<<"b">> :> JStr(<<"x">>))
ObjW == JObj((<<"i", "d">> :> JNum(12)) @@ (<<"n">> :> JStr(<<"x">>)))
NotFound == <<"n", "o", "t", " ", "f", "o", "u", "n", "d">>
Elements == {ObjA, ObjB, JNum(2)}
Arrays == UNION {[1..n -> Elements] : n \in 0..MaxElems}
ServerValues ==
    {JArr(e) : e \in Arrays}
    \cup {ObjW, JObj(<< >>), JStr(NotFound), JNum(2), JNull, JBool(FALSE)}

\* bodies that end cleanly: JSON texts, no content, plain text, a cut-off object
CleanBodies ==
    {[data |-> Marshal(v).bytes, err |-> FALSE] : v \in ServerValues}
    \cup {[data |-> t, err |-> FALSE] :
            t \in {<< >>, NotFound, <<"{", "\"", "a", "\"", ":">>}}

\* bodies whose read fails after the bytes in data
BrokenBodies ==
    {[data |-> t, err |-> TRUE] :
        t \in {<< >>, <<"n", "o", "t">>, Marshal(ObjA).bytes, <<"2">>}}

Statuses == {100, 200, 204, 300, 301, 404, 599}

TransportError == [err |-> TRUE, StatusCode |-> 0, Body |-> [data |-> << >>, err |-> FALSE]]

Outcomes ==
    {TransportError}
    \cup [err : {FALSE}, StatusCode : Statuses, Body : CleanBodies \cup BrokenBodies]

\* the inputs of the concurrent specification: calls that differ in operation,
\* token, correlation id and payload
ArgsConc ==
    {[op |-> "DoGet", ctx |-> Cid1, url |-> PathW, method |-> << >>,
      rawToken |-> << >>, payload |-> << >>, out |-> "nil"],
     [op |-> "DoGetList", ctx |-> Cid2, url |-> PathW, method |-> << >>,
      rawToken |-> TokAbc, payload |-> << >>, out |-> "nil"],
     [op |-> "DoPost", ctx |-> Cid2, url |-> PathW, method |-> << >>,
      rawToken |-> TokBearerAbc, payload |-> <<PayloadOK>>, out |-> "nil"],
     [op |-> "DoRequestWithResponseParam", ctx |-> Cid1, url |-> PathW,
      method |-> PUT, rawToken |-> TokAbc, payload |-> <<PayloadBad>>,
      out |-> "any"]}

OutcomesConc ==
    {TransportError,
     [err |-> FALSE, StatusCode |-> 200,
      Body |-> [data |-> Marshal(ObjA).bytes, err |-> FALSE]],
     [err |-> FALSE, StatusCode |-> 404, Body |-> [data |-> NotFound, err |-> TRUE]]}

Next ==
    \E c \in OneCall :
        \/ \E a \in Args : Invoke(c, a)
        \/ Build(c)
        \/ \E o \in Outcomes : Send(c, o)
        \/ Handle(c)
        \/ Close(c)
        \/ Finish(c)

NextConc ==
    \E c \in ManyCalls :
        \/ \E a \in ArgsConc : Invoke(c, a)
        \/ Build(c)
        \/ \E o \in OutcomesConc : Send(c, o)
        \/ Handle(c)
        \/ Close(c)
        \/ Finish(c)

\* one call at a time, every input
Spec == Init /\ [][Next]_vars

\* MaxCalls calls interleaved
SpecConc == InitConc /\ [][NextConc]_vars

(***************************************************************************)
(* Properties.                                                             *)
(***************************************************************************)
Calls == DOMAIN call

\* call c got a response from the transport and is past its classification
Answered(c) == call[c].response # << >> /\ call[c].pc \in {"deferred", "returned", "done"}

StatusOf(c) == call[c].response[1].StatusCode

BodyOf(c) == call[c].response[1].Body

HttpFailure(err) == err # << >> /\ err[1].cause = "Received non-success code"

Typed(c) == call[c].op = "DoRequestWithResponseParam"

\* the public operation of call c returned nothing but an error
NoResult(c) == IF Typed(c) THEN call[c].result.val = JNull
               ELSE call[c].result.val = << >>

HeaderValues(req, key) == IF key \in DOMAIN req.Header THEN req.Header[key] ELSE << >>

StartsWithBearer(t) ==
    /\ Len(t) >= 6
    /\ <<t[1], t[2], t[3], t[4], t[5], t[6]>> = <<"B", "e", "a", "r", "e", "r">>

\* C2: the request handed to the transport has no Authorization header for an
\* empty rawToken, exactly the rawToken for one that begins with "Bearer", and
\* "Bearer " followed by the rawToken for any other; on both paths.
C2_AuthorizationHeader ==
    \A c \in Calls : \A i \in DOMAIN wire[c] :
        LET auth == HeaderValues(wire[c][i].req, "Authorization")
            t == call[c].rawToken
        IN  /\ t = << >> => auth = << >>
            /\ t # << >> /\ StartsWithBearer(t) => auth = <<t>>
            /\ t # << >> /\ ~StartsWithBearer(t) =>
                  auth = <<(<<"B", "e", "a", "r", "e", "r", " ">> \o t)>>

C2_Witness ==
    \E c \in Calls :
        /\ wire[c] # << >>
        /\ call[c].rawToken = Bearer
        /\ HeaderValues(wire[c][1].req, "Authorization") = <<Bearer>>

\* C3: for a response with status > 300 whose body reads without error, the call
\* returns no result and an API error with the request URL, that status, and the
\* text of the response body.
C3_FailureCarriesBody ==
    \A c \in Calls :
        (call[c].pc = "done" /\ call[c].response # << >>
            /\ StatusOf(c) > 300 /\ ~BodyOf(c).err) =>
            /\ NoResult(c)
            /\ call[c].result.err # << >>
            /\ call[c].result.err[1].kind = "APICallError"
            /\ call[c].result.err[1].url = TheClient.BaseURL \o call[c].url
            /\ call[c].result.err[1].status = <<StatusOf(c)>>
            /\ call[c].result.err[1].body = <<BodyOf(c).data>>

\* C4: DoDelete returns a nil error for every response with status <= 300,
\* whatever the body.
C4_DeleteIgnoresBody ==
    \A c \in Calls :
        (call[c].op = "DoDelete" /\ call[c].pc = "done"
            /\ call[c].response # << >> /\ StatusOf(c) <= 300) =>
            call[c].result.err = << >>

AllObjects(v) == v.t = "array" /\ \A i \in 1..Len(v.e) : v.e[i].t = "object"

IsShapeError(err) == err # << >> /\ err[1].kind = "errorString"

\* C5: DoGetList never returns a partial result: a decoded value that is no
\* array, or an array with an element that is no object, gives a nil result and
\* a shape-mismatch error; an array of objects gives its elements, in order.
C5_ListAllOrNothing ==
    \A c \in Calls :
        (call[c].op = "DoGetList" /\ call[c].pc = "done" /\ call[c].ret.err = << >>) =>
            LET v == call[c].ret.val
                r == call[c].result
            IN  IF AllObjects(v)
                THEN /\ r.err = << >>
                     /\ Len(r.val) = Len(v.e)
                     /\ \A i \in 1..Len(v.e) : r.val[i] = v.e[i].m
                ELSE r.val = << >> /\ IsShapeError(r.err)

C5_Witness ==
    \E c \in Calls :
        /\ call[c].op = "DoGetList"
        /\ call[c].pc = "done"
        /\ call[c].ret.val = JArr(<<ObjA, JNum(2)>>)
        /\ call[c].result.val = << >>
        /\ IsShapeError(call[c].result.err)

\* C6: DoGet and DoPost, once the exchange succeeded and the body decoded: an
\* object is returned as that mapping with a nil error; anything else gives a nil
\* result and a plain error, not an API error.
C6_MapOrShapeError ==
    \A c \in Calls :
        (call[c].op \in {"DoGet", "DoPost"} /\ call[c].pc = "done"
            /\ call[c].ret.err = << >>) =>
            LET v == call[c].ret.val
                r == call[c].result
            IN  IF v.t = "object"
                THEN r.val = <<v.m>> /\ r.err = << >>
                ELSE /\ r.val = << >>
                     /\ r.err # << >>
                     /\ r.err[1].kind # "APICallError"
                     /\ r.err[1].cause = "Could not parse Json to map"

C6_Witness ==
    \E c \in Calls :
        /\ call[c].op = "DoGet"
        /\ call[c].pc = "done"
        /\ call[c].ret.err = << >>
        /\ call[c].ret.val.t = "array"
        /\ IsShapeError(call[c].result.err)

\* C7: an API error of either routine carries BaseURL + path; a build or a
\* transport failure has neither status nor body, an HTTP failure has both, a
\* decode failure has the status and no body; so the status is there exactly
\* when the transport returned a response, and never a body without a status.
C7_ErrorFields ==
    \A c \in Calls :
        (call[c].pc \in {"returned", "done"} /\ call[c].ret.err # << >>) =>
            LET e == call[c].ret.err[1]
            IN  /\ e.kind = "APICallError"
                /\ e.url = TheClient.BaseURL \o call[c].url
                /\ (e.status # << >>) <=> (call[c].response # << >>)
                /\ e.body # << >> => e.status # << >>
                /\ call[c].response = << >> => e.status = << >> /\ e.body = << >>
                /\ call[c].response # << >> =>
                      /\ e.status = <<StatusOf(c)>>
                      /\ StatusOf(c) > 300 => Len(e.body) = 1
                      /\ StatusOf(c) <= 300 => e.body = << >>

C7_Witness ==
    \E c \in Calls :
        /\ call[c].pc = "done"
        /\ call[c].ret.err # << >>
        /\ call[c].response # << >>
        /\ StatusOf(c) = 200
        /\ call[c].ret.err[1].status = <<200>>
        /\ call[c].ret.err[1].body = << >>

BuildCauses == {"Unable to marshal payload", "Unable to create HTTP request"}

\* C8: a call invokes the transport at most once; not at all when serialization
\* or request construction fails, and exactly once otherwise, whatever follows.
C8_OneAttempt ==
    \A c \in Calls :
        /\ Len(wire[c]) <= 1
        /\ call[c].pc \in {"returned", "done"} =>
              IF call[c].ret.err # << >> /\ call[c].ret.err[1].cause \in BuildCauses
              THEN Len(wire[c]) = 0
              ELSE Len(wire[c]) = 1

C8_Witness ==
    \E c \in Calls :
        /\ call[c].pc = "done"
        /\ call[c].ret.err # << >>
        /\ call[c].ret.err[1].cause = "Unable to invoke API"
        /\ Len(wire[c]) = 1

Rank(ev) ==
    CASE ev = "serialize" -> 1
      [] ev = "construct" -> 2
      [] ev = "send" -> 3
      [] ev = "classify" -> 4
      [] ev = "read" -> 5
      [] ev = "decode" -> 5
      [] ev = "close" -> 6

\* C9: the steps of a call come in the order serialize, send, classify, read or
\* decode, close; a response's body is closed exactly once before the call
\* returns, after any read or decode; without a response nothing is closed.
C9_StepOrder ==
    \A c \in Calls :
        LET tr == call[c].trace
        IN  /\ \A i, j \in DOMAIN tr : i < j => Rank(tr[i]) < Rank(tr[j])
            /\ call[c].closed = Cardinality({i \in DOMAIN tr : tr[i] = "close"})
            /\ call[c].pc \in {"returned", "done"} =>
                  /\ call[c].response # << >> =>
                        call[c].closed = 1 /\ tr[Len(tr)] = "close"
                  /\ call[c].response = << >> => call[c].closed = 0

C9_Witness ==
    \E c \in Calls :
        /\ call[c].pc = "done"
        /\ call[c].trace = <<"construct", "send", "classify", "read", "close">>
        /\ call[c].closed = 1

\* what a call with the arguments of frame f returns when it runs alone and the
\* transport answers with the exchanges in w
Alone(f, w) ==
    LET b == BuildRequest(TheClient, f.url, f.method, f.rawToken, f.payload, f.ctx)
        u == TheClient.BaseURL \o f.url
        ret == IF ~b.ok THEN [val |-> JNull, err |-> b.err]
               ELSE IF w[1].outcome.err
               THEN [val |-> JNull,
                     err |-> <<NewAPICallError(u, << >>, << >>, "Unable to invoke API")>>]
               ELSE LET h == IF f.op = "DoRequestWithResponseParam"
                             THEN HandleTyped(u, w[1].outcome, f.out)
                             ELSE HandleGeneric(u, w[1].outcome)
                    IN  [val |-> h.val, err |-> h.err]
    IN  [req |-> b.req,
         result |-> CASE f.op \in {"DoGet", "DoPost"} -> AssertMap(ret)
                      [] f.op = "DoGetList" -> AssertList(ret)
                      [] f.op = "DoDelete" -> AssertNone(ret)
                      [] OTHER -> AssertTyped(ret)]

\* C10: with calls interleaved in any way, the executor's fields stay as they
\* were, and each call's request and each call's result are those of the call
\* run alone on its own arguments and the answer to its own request.
C10_CallsIsolated ==
    /\ apiClient = TheClient
    /\ \A c \in Calls :
          /\ wire[c] # << >> => <<wire[c][1].req>> = Alone(call[c], wire[c]).req
          /\ call[c].pc = "done" => call[c].result = Alone(call[c], wire[c]).result

C10_Witness ==
    \E c, d \in Calls :
        /\ c # d
        /\ call[c].pc = "done" /\ call[d].pc = "done"
        /\ wire[c] # << >> /\ wire[d] # << >>
        /\ call[c].ctx # call[d].ctx
        /\ call[c].result.err = << >>
        /\ call[d].result.err # << >>

====
